---- MODULE Spec2Model ----
(***************************************************************************)
(* Model of the gallery page of image-watch (Images.svelte, kept in the    *)
(* sources as src/unnamed/part_002): the WebSocket client with its         *)
(* reconnect backoff, the keepalive cycle, the liveness probe and the      *)
(* sorted image list that inbound messages maintain.                       *)
(*                                                                         *)
(* JavaScript runs every handler to completion on one thread, so each      *)
(* listener, timer callback and promise continuation is one atomic action. *)
(* What is in flight between two handlers is state: the sockets that       *)
(* connect() created, the pending setTimeout callbacks and the pending     *)
(* keepalive() promises.                                                   *)
(***************************************************************************)
EXTENDS Integers, Sequences, FiniteSets, TLC

(***************************************************************************)
(* Program constants.                                                      *)
(***************************************************************************)
originalReconnectTimeout == 500
maxReconnectTimeout == 3000
keepaliveInterval == 60000
\* keepalive() returns null when fetch throws.
Null == 0
\* The status that ends the session.
Unauthorized == 401

(***************************************************************************)
(* Bounds of the model.                                                    *)
(***************************************************************************)
\* connect() is called at most MaxSockets times (the first call included).
MaxSockets == 3
\* The same bound for the model of the reconnect backoff alone.
MaxAttempts == 5
\* The working list holds at most MaxImages items.
MaxImages == 3
\* A message adds at most MaxAdded items.
MaxAdded == 2
\* Timestamps are 1..MaxTimestamp.
MaxTimestamp == 3
\* The router has at most MaxRoutes routes registered.
MaxRoutes == 3
\* setDefaultRoute is called at most MaxDefaultCalls times.
MaxDefaultCalls == 3
\* handleLogin is called at most MaxLogins times.
MaxLogins == 3
\* The page shows at most MaxInstances Image components.
MaxInstances == 2

Names == {"a.jpg", "b.jpg"}
Timestamps == 1..MaxTimestamp

Min(a, b) == IF a <= b THEN a ELSE b

RECURSIVE Pow2(_)
Pow2(k) == IF k = 0 THEN 1 ELSE 2 * Pow2(k - 1)

(***************************************************************************)
(* State.                                                                  *)
(***************************************************************************)
VARIABLES
    images,             \* line 9: $state list the template renders
    connected,          \* line 10: $state flag behind the "connection lost" alert
    dummy_images,       \* line 16: working list the handlers mutate
    reconnectTimeout,   \* line 38: delay the next scheduled reconnect will use
    connectScheduled,   \* line 42: guard flag of scheduleReconnect
    sockets,            \* line 63: state of the i-th WebSocket created
    reconnectTimers,    \* line 115: delays of the pending reconnect setTimeouts
    keepaliveTimers,    \* line 125: delays of the pending keepalive setTimeouts
    closeProbes,        \* line 101: pending keepalive() calls of closeAndErrorHandler
    keepaliveProbes,    \* line 126: pending keepalive() calls of the keepalive cycle
    sessionTerminated,  \* lines 103, 128: removeAuthToken() has been called
    teardown,           \* whether the page was unmounted, and in what state
    sinceOpen,          \* reconnects scheduled since the last open (or start)
    resetFrom,          \* reconnectTimeout just before the last open, 0 if none
    last,               \* the handler that ran last and what it did
    delivered,          \* the traced message: the list before it and its data
    \* Router.svelte (src/unnamed/part_001)
    knownRoutes,        \* line 4: $state list of the registered routes
    defaultRoute,       \* line 5: $state default route, null at first
    defaultRouteCalls,  \* how often setDefaultRoute was called
    thrown,             \* message of the error the last router call threw
    \* Login.svelte (src/unnamed/part_001, second script)
    authToken,          \* the token the application holds (set by setAuthToken)
    setAuthTokenCalls,  \* line 81: how often setAuthToken was called
    loginsStarted,      \* line 76: how often handleLogin was called
    loginsPending,      \* line 77: getToken promises not yet settled
    lastLogin,          \* the login step that ran last and its fetch outcome
    \* Image.svelte (script in src/frontend/src/components/__tests__/
    \* AuthGuards.test.js, lines 70-124)
    instances           \* the Image component instances, by number

clientVars ==
    <<images, connected, dummy_images, reconnectTimeout, connectScheduled,
      sockets, reconnectTimers, keepaliveTimers, closeProbes,
      keepaliveProbes, sessionTerminated, teardown, sinceOpen,
      resetFrom, last, delivered>>

routerVars == <<knownRoutes, defaultRoute, defaultRouteCalls, thrown>>

loginVars ==
    <<authToken, setAuthTokenCalls, loginsStarted, loginsPending, lastLogin>>

imageVars == <<instances>>

vars == <<clientVars, routerVars, loginVars, imageVars>>

\* `ws` always refers to the socket created last.
ws == Len(sockets)

(***************************************************************************)
(* The ordered item store: the message listener and insertSorted.          *)
(***************************************************************************)
Item(name, timestamp) == [name |-> name, timestamp |-> timestamp]

\* Faulty variant of ScanIndex: the scan also passes equal timestamps.
ScanIndexAfterEqual(list, img, i) ==
    LET Scan[j \in 0..Len(list)] ==
            IF j < Len(list) /\ list[j + 1].timestamp >= img.timestamp
            THEN Scan[j + 1] ELSE j
    IN Scan[i]

\* The while loop of insertSorted: the first index (0-based) whose item does
\* not have a strictly greater timestamp than img.
RECURSIVE ScanIndex(_, _, _)
ScanIndex(list, img, i) ==
    IF i < Len(list) /\ list[i + 1].timestamp > img.timestamp
    THEN ScanIndex(list, img, i + 1)
    ELSE i

\* Faulty variant of insertSorted: the scan compares the wrong way round.
insertSortedAscending(list, img) ==
    LET Scan[i \in 0..Len(list)] ==
            IF i < Len(list) /\ list[i + 1].timestamp < img.timestamp
            THEN Scan[i + 1] ELSE i
        i == Scan[0]
    IN SubSeq(list, 1, i) \o <<img>> \o SubSeq(list, i + 1, Len(list))

\* insertSorted(img): [...slice(0, i), img, ...slice(i)].
insertSorted(list, img) ==
    LET i == ScanIndex(list, img, 0)
    IN SubSeq(list, 1, i) \o <<img>> \o SubSeq(list, i + 1, Len(list))

\* Faulty variant of removeFilter: the test of the filter is inverted.
removeFilterInverted(list, removedSet) ==
    SelectSeq(list, LAMBDA img : img.name \in removedSet)

\* dummy_images.filter((img) => !removedSet.has(img.name))
removeFilter(list, removedSet) ==
    SelectSeq(list, LAMBDA img : img.name \notin removedSet)

\* for (const [name, timestamp] of data.added ?? []) insertSorted(...)
RECURSIVE insertAll(_, _)
insertAll(list, added) ==
    IF added = <<>> THEN list
    ELSE insertAll(insertSorted(list, Item(added[1][1], added[1][2])),
                   Tail(added))

\* A decoded message: `removed` and `added` are both optional.
Delta(hasRemoved, removed, hasAdded, added) ==
    [hasRemoved |-> hasRemoved, removed |-> removed,
     hasAdded |-> hasAdded, added |-> added]

\* The working list after the message listener has handled data.
messageListener(list, data) ==
    LET filtered == IF data.hasRemoved
                    THEN removeFilter(list, data.removed)
                    ELSE list
    IN insertAll(filtered, IF data.hasAdded THEN data.added ELSE <<>>)

\* Faulty variant of imagesAssignments: images is assigned inside the loop,
\* once per added item.
imagesAssignmentsPerItem(list, data) ==
    LET filtered == IF data.hasRemoved
                    THEN removeFilter(list, data.removed)
                    ELSE list
        added == IF data.hasAdded THEN data.added ELSE <<>>
    IN [k \in 1..Len(added) |-> insertAll(filtered, SubSeq(added, 1, k))]

\* The values the message listener assigns to images, in order: the one
\* assignment images = dummy_images after the loop.
imagesAssignments(list, data) == <<messageListener(list, data)>>

\* A message the listener cannot handle to its end. kind "json": the text is
\* no JSON and JSON.parse throws; kind "removed": data.removed is truthy but
\* not iterable and new Set(...) throws; kind "added": data.added, or one of
\* its entries, is not iterable and the for loop throws, after the removals
\* of data.removed and the entries of data.added before the bad one.
BadMessage(kind, data) == [kind |-> kind, data |-> data]

\* The working list after the message listener has thrown on bad.
badMessageListener(list, bad) ==
    IF bad.kind = "added" THEN messageListener(list, bad.data) ELSE list

\* Whether data only removes, and only names that list does not hold.
AbsentRemoval(list, data) ==
    /\ data.hasRemoved
    /\ \A i \in 1..Len(list) : list[i].name \notin data.removed
    /\ (data.hasAdded => data.added = <<>>)

\* The traced message: the working list the listener found and the data.
Delivery(list, data) == [traced |-> TRUE, before |-> list, data |-> data]

NoDelivery ==
    [traced |-> FALSE, before |-> <<>>,
     data |-> Delta(FALSE, {}, FALSE, <<>>)]

AddedEntries == Names \X Timestamps

RECURSIVE SeqsUpTo(_, _)
SeqsUpTo(S, n) ==
    IF n = 0 THEN {<<>>}
    ELSE LET shorter == SeqsUpTo(S, n - 1)
         IN shorter \cup {Append(q, x) : q \in {r \in shorter : Len(r) = n - 1},
                                         x \in S}

\* Every message of the inbound schema over Names and Timestamps: each of
\* the two fields is absent or holds a list.
Deltas ==
    {Delta(r[1], r[2], a[1], a[2]) :
        r \in ({FALSE} \X {{}}) \cup ({TRUE} \X SUBSET Names),
        a \in ({FALSE} \X {<<>>})
                \cup ({TRUE} \X SeqsUpTo(AddedEntries, MaxAdded))}

\* The messages that add at most n items, and the number of items a list
\* of the model still has room for.
DeltasBySize ==
    [n \in 0..MaxAdded |-> {data \in Deltas : Len(data.added) <= n}]

Room(list) == Min(MaxAdded, MaxImages - Len(list))

\* The messages the connection model delivers: one that replaces a.jpg and
\* one that removes it.
ConnDeltas ==
    {Delta(TRUE, {"a.jpg"}, TRUE, <<<<"a.jpg", 1>>>>),
     Delta(TRUE, {"a.jpg"}, FALSE, <<>>)}

\* The bad messages the connection model delivers: text that is no JSON,
\* {"removed": 1}, and {"removed": ["a.jpg"], "added": 1}.
ConnBadMessages ==
    {BadMessage("json", Delta(FALSE, {}, FALSE, <<>>)),
     BadMessage("removed", Delta(FALSE, {}, FALSE, <<>>)),
     BadMessage("added", Delta(TRUE, {"a.jpg"}, TRUE, <<>>))}

(***************************************************************************)
(* The liveness probe and the two scheduling functions.                    *)
(***************************************************************************)
\* What fetch("/backend/keepalive") can do: resolve with a response, or
\* reject with an error that may itself carry a status field.
FetchOutcomes ==
    [kind : {"response"}, status : {200, Unauthorized, 500}]
        \cup [kind : {"reject"}, status : {Null, Unauthorized}]

\* What a keepalive() promise that rejected would hand on instead of a
\* result: keepalive().then(...) has no rejection handler, so its callback
\* would not run.
Rejected == Null - 1

\* Faulty variant of keepalive: without the try/catch a failed fetch rejects
\* the promise.
keepaliveUncaught(outcome) ==
    IF outcome.kind = "response" THEN outcome.status ELSE Rejected

\* keepalive(): the response's status, or null from the catch block.
keepalive(outcome) ==
    IF outcome.kind = "response" THEN outcome.status ELSE Null

\* Faulty variant of terminates: the result is never taken as a 401.
terminatesNever(result) == FALSE

\* if (result === 401) in both promise continuations.
terminates(result) == result = Unauthorized

\* Faulty variant of nextReconnectTimeout: the doubling is not capped.
nextReconnectTimeoutUncapped(t) == t * 2

\* Math.min(reconnectTimeout * 2, maxReconnectTimeout)
nextReconnectTimeout(t) == Min(t * 2, maxReconnectTimeout)

\* Faulty variant of openReconnectTimeout: the open listener keeps the backoff.
openReconnectTimeoutKept(t) == t

\* reconnectTimeout = originalReconnectTimeout in the open listener.
openReconnectTimeout(t) == originalReconnectTimeout

\* Faulty variant of scheduleReconnect: the flag is set but not tested.
scheduleReconnectUnguarded(scheduled, timers, timeout) ==
    [connectScheduled |-> TRUE,
     reconnectTimers |-> Append(timers, timeout),
     reconnectTimeout |-> nextReconnectTimeout(timeout),
     delay |-> timeout]

\* Faulty variant of scheduleReconnect: the flag is set and the backoff
\* doubled, but no timer is set.
scheduleReconnectNoTimer(scheduled, timers, timeout) ==
    IF scheduled
    THEN [connectScheduled |-> scheduled, reconnectTimers |-> timers,
          reconnectTimeout |-> timeout, delay |-> 0]
    ELSE [connectScheduled |-> TRUE,
          reconnectTimers |-> timers,
          reconnectTimeout |-> nextReconnectTimeout(timeout),
          delay |-> timeout]

\* scheduleReconnect(): the new flag, timers and backoff, and the delay it
\* passed to setTimeout (0 when it returned early).
scheduleReconnect(scheduled, timers, timeout) ==
    IF scheduled
    THEN [connectScheduled |-> scheduled, reconnectTimers |-> timers,
          reconnectTimeout |-> timeout, delay |-> 0]
    ELSE [connectScheduled |-> TRUE,
          reconnectTimers |-> Append(timers, timeout),
          reconnectTimeout |-> nextReconnectTimeout(timeout),
          delay |-> timeout]

\* Faulty variant of scheduleKeepalive: setTimeout without the interval.
scheduleKeepaliveAtOnce(isConnected, timers) ==
    IF isConnected THEN Append(timers, 0) ELSE timers

\* scheduleKeepalive(): one more keepalive timer, set with keepaliveInterval,
\* but only while connected.
scheduleKeepalive(isConnected, timers) ==
    IF isConnected THEN Append(timers, keepaliveInterval) ELSE timers

\* What the last handler was and did: `stale` says that it belonged to a
\* socket older than ws, `result` is the probe result it saw, `delay` the
\* delay of the reconnect timer it set (0: none), `removed` the number of
\* times it called removeAuthToken(). For a probe continuation `outcome` is
\* what its fetch did; for a message `kind` says what sort of message it was
\* and `published` how often the listener assigned to images.
NoFetch == [kind |-> "none", status |-> Null]

Last(op, stale, result, delay, removed) ==
    [op |-> op, stale |-> stale, result |-> result, delay |-> delay,
     removed |-> removed, outcome |-> NoFetch, kind |-> "", published |-> 0]

LastProbe(op, outcome, result, delay, removed) ==
    [Last(op, FALSE, result, delay, removed) EXCEPT !.outcome = outcome]

LastMessage(stale, kind, published) ==
    [Last("message", stale, Null, 0, 0) EXCEPT !.kind = kind,
                                               !.published = published]

\* The unmounting of the page: whether it has happened, and whether the
\* client was connected and had a reconnect timer pending when it did.
Teardown(done, wasConnected, reconnectPending) ==
    [done |-> done, connected |-> wasConnected,
     reconnectPending |-> reconnectPending]

(***************************************************************************)
(* The router (Router.svelte): registerRoute and setDefaultRoute.          *)
(***************************************************************************)
\* let defaultRoute = $state(null)
NoRoute == "<null>"
\* No error was thrown.
NoError == ""
AlreadySet == "Default route already set"

\* The paths the Route components register: values of location.pathname.
RoutePaths == {"/", "/images", "/login"}

\* JavaScript truthiness of a route: neither null nor the empty string.
truthy(route) == route # NoRoute /\ route # ""

\* knownRoutes.push(route)
registerRoute(routes, route) == Append(routes, route)

\* Faulty variant of setDefaultRoute: a later call replaces the route.
setDefaultRouteOverwrites(current, route) ==
    [defaultRoute |-> route, thrown |-> NoError]

\* setDefaultRoute(route): the default route after the call and the message
\* of the error it threw.
setDefaultRoute(current, route) ==
    IF truthy(current)
    THEN [defaultRoute |-> current, thrown |-> AlreadySet]
    ELSE [defaultRoute |-> route, thrown |-> NoError]

(***************************************************************************)
(* The login page (Login.svelte): getToken and handleLogin.                *)
(***************************************************************************)
\* null, as getToken returns it; also the application without a token.
NoToken == "<null>"

\* The bodies the backend answers a login with.
Bodies == {"", "token-1", "token-2"}

\* How the login request ends: fetch rejects ("reject"), the response
\* arrives but reading its text rejects ("unreadable"), or the response
\* arrives with a status and a body ("response").
LoginOutcomes ==
    [kind : {"response"}, status : {200, Unauthorized, 500}, body : Bodies]
        \cup [kind : {"reject", "unreadable"}, status : {200}, body : {""}]

NoLogin == [kind |-> "none", status |-> Null, body |-> ""]

\* Faulty variant of getToken: the body is returned whatever the status.
getTokenAnyStatus(outcome) ==
    IF outcome.kind = "response" THEN outcome.body ELSE NoToken

\* getToken(username, password): the body of a response with status 200,
\* null for any other status and for anything the try block throws.
getToken(outcome) ==
    IF outcome.kind = "response"
    THEN IF outcome.status = 200 THEN outcome.body ELSE NoToken
    ELSE NoToken

\* The login step that ran last.
LastLogin(op, outcome) == [op |-> op, outcome |-> outcome]

(***************************************************************************)
(* The Image component (Image.svelte): loadImage, handleIntersect and the  *)
(* onMount and onDestroy callbacks.                                        *)
(***************************************************************************)
\* let imageSrc = $state("")
NoURL == <<>>

\* URL.createObjectURL(blob): a new URL each time; instance i creates at
\* most one.
ObjectURL(i) == <<"blob", i>>

\* The src props: none, or the path of an image.
Sources == {"", "/backend/data/a.jpg"}

\* How the fetch of loadImage ends: a response whose blob is read, a
\* rejection with status 401, or any other rejection.
ImageOutcomes == {"blob", "reject401", "reject"}

\* An instance that is not mounted yet. `phase` is its life cycle, `fetch`
\* the state of the promise of loadImage, `fetches` the number of requests
\* issued, `intersected` whether an intersecting entry was delivered,
\* `created` / `revoked` whether its object URL was created / revoked.
Unmounted ==
    [phase |-> "unmounted", src |-> "", observing |-> FALSE,
     fetch |-> "none", fetches |-> 0, intersected |-> FALSE,
     imageSrc |-> NoURL, created |-> FALSE, revoked |-> FALSE,
     removedToken |-> FALSE]

\* loadImage() up to its await: nothing without a src, else one request.
loadImage(inst) ==
    IF inst.src = "" THEN inst
    ELSE [inst EXCEPT !.fetch = "pending", !.fetches = inst.fetches + 1]

\* handleIntersect(entries): on an intersecting entry loadImage() and
\* observer.disconnect().
handleIntersect(inst, isIntersecting) ==
    IF isIntersecting
    THEN [loadImage(inst) EXCEPT !.observing = FALSE, !.intersected = TRUE]
    ELSE inst

\* loadImage() after its awaits: imageSrc = URL.createObjectURL(blob), or
\* the catch block with removeToken() on status 401.
loadImageSettled(inst, i, outcome) ==
    IF outcome = "blob"
    THEN [inst EXCEPT !.fetch = "settled", !.imageSrc = ObjectURL(i),
                      !.created = TRUE]
    ELSE IF outcome = "reject401"
    THEN [inst EXCEPT !.fetch = "settled", !.removedToken = TRUE]
    ELSE [inst EXCEPT !.fetch = "settled"]

\* The onDestroy callback: observer?.disconnect() and
\* if (imageSrc) URL.revokeObjectURL(imageSrc).
onDestroy(inst) ==
    [inst EXCEPT !.phase = "destroyed", !.observing = FALSE,
                 !.revoked = IF inst.imageSrc # NoURL THEN TRUE
                             ELSE inst.revoked]

(***************************************************************************)
(* Initial state: the script has run to its end, connect() included.       *)
(***************************************************************************)
Init ==
    /\ images = <<>>
    /\ connected = FALSE
    /\ dummy_images = <<>>
    /\ reconnectTimeout = originalReconnectTimeout
    /\ connectScheduled = FALSE
    /\ sockets = <<"connecting">>
    /\ reconnectTimers = <<>>
    /\ keepaliveTimers = <<>>
    /\ closeProbes = 0
    /\ keepaliveProbes = 0
    /\ sessionTerminated = FALSE
    /\ teardown = Teardown(FALSE, FALSE, FALSE)
    /\ sinceOpen = 0
    /\ resetFrom = 0
    /\ last = Last("connect", FALSE, Null, 0, 0)
    /\ delivered = NoDelivery
    /\ knownRoutes = <<>>
    /\ defaultRoute = NoRoute
    /\ defaultRouteCalls = 0
    /\ thrown = NoError
    /\ authToken = NoToken
    /\ setAuthTokenCalls = 0
    /\ loginsStarted = 0
    /\ loginsPending = 0
    /\ lastLogin = LastLogin("none", NoLogin)
    /\ instances = [i \in 1..MaxInstances |-> Unmounted]

\* A socket delivers events until it has delivered close.
Live(s) == sockets[s] \in {"connecting", "open"}

\* closeAndErrorHandler() up to its call of keepalive(): one more probe.
closeAndErrorHandler(probes) == probes + 1

(***************************************************************************)
(* The listeners that connect() registers on a socket.                     *)
(***************************************************************************)
\* "open" listener.
OnOpen(s) ==
    /\ sockets[s] = "connecting"
    /\ sockets' = [sockets EXCEPT ![s] = "open"]
    /\ connected' = TRUE
    /\ dummy_images' = <<>>
    /\ reconnectTimeout' = openReconnectTimeout(reconnectTimeout)
    /\ keepaliveTimers' = scheduleKeepalive(connected', keepaliveTimers)
    /\ sinceOpen' = 0
    /\ resetFrom' = reconnectTimeout
    /\ last' = Last("open", s < ws, Null, 0, 0)
    /\ UNCHANGED <<images, connectScheduled, reconnectTimers, closeProbes,
                   keepaliveProbes, sessionTerminated, teardown>>
    /\ UNCHANGED <<delivered, routerVars, loginVars, imageVars>>

\* "message" listener, for a message that decodes to data.
HandleMessage(s, data) ==
    /\ sockets[s] = "open"
    /\ Len(dummy_images) + Len(data.added) <= MaxImages
    /\ dummy_images' = messageListener(dummy_images, data)
    /\ LET assigned == imagesAssignments(dummy_images, data)
       IN /\ images' = IF assigned = <<>> THEN images
                        ELSE assigned[Len(assigned)]
          /\ last' = LastMessage(s < ws,
                                 IF AbsentRemoval(dummy_images, data)
                                 THEN "absentRemoval" ELSE "delta",
                                 Len(assigned))
    /\ UNCHANGED <<connected, reconnectTimeout, connectScheduled, sockets,
                   reconnectTimers, keepaliveTimers, closeProbes,
                   keepaliveProbes, sessionTerminated, teardown,
                   sinceOpen, resetFrom>>
    /\ UNCHANGED <<routerVars, loginVars, imageVars>>

OnMessage(s, data) ==
    /\ HandleMessage(s, data)
    /\ UNCHANGED delivered

\* The same listener, with the message traced: the working list it found
\* and the data it decoded are kept for the first message so handled.
OnMessageTraced(s, data) ==
    /\ delivered = NoDelivery
    /\ HandleMessage(s, data)
    /\ delivered' = Delivery(dummy_images, data)

\* "message" listener, for a message on which it throws: what it did up to
\* the throw stays, and the assignment to images is not reached.
OnBadMessage(s, bad) ==
    /\ sockets[s] = "open"
    /\ Len(dummy_images) + Len(bad.data.added) <= MaxImages
    /\ dummy_images' = badMessageListener(dummy_images, bad)
    /\ last' = [LastMessage(s < ws, bad.kind, 0) EXCEPT !.op = "badMessage"]
    /\ UNCHANGED <<images, connected, reconnectTimeout, connectScheduled,
                   sockets, reconnectTimers, keepaliveTimers, closeProbes,
                   keepaliveProbes, sessionTerminated, teardown,
                   sinceOpen, resetFrom>>
    /\ UNCHANGED <<delivered, routerVars, loginVars, imageVars>>

\* "close" listener of a connection that closes without an error.
OnClose(s) ==
    /\ Live(s)
    /\ sockets' = [sockets EXCEPT ![s] = "closed"]
    /\ connected' = FALSE
    /\ closeProbes' = closeAndErrorHandler(closeProbes)
    /\ last' = Last("close", s < ws, Null, 0, 0)
    /\ UNCHANGED <<images, dummy_images, reconnectTimeout, connectScheduled,
                   reconnectTimers, keepaliveTimers, keepaliveProbes,
                   sessionTerminated, teardown, sinceOpen, resetFrom>>
    /\ UNCHANGED <<delivered, routerVars, loginVars, imageVars>>

\* A connection that fails: the browser fires error and then close in one
\* task, so the "error" listener and the "close" listener run back to back.
OnError(s) ==
    /\ Live(s)
    /\ sockets' = [sockets EXCEPT ![s] = "closed"]
    /\ connected' = FALSE
    /\ closeProbes' = closeAndErrorHandler(closeAndErrorHandler(closeProbes))
    /\ last' = Last("error", s < ws, Null, 0, 0)
    /\ UNCHANGED <<images, dummy_images, reconnectTimeout, connectScheduled,
                   reconnectTimers, keepaliveTimers, keepaliveProbes,
                   sessionTerminated, teardown, sinceOpen, resetFrom>>
    /\ UNCHANGED <<delivered, routerVars, loginVars, imageVars>>

(***************************************************************************)
(* Promise continuations and timer callbacks.                              *)
(***************************************************************************)
\* keepalive().then(...) of closeAndErrorHandler.
CloseProbeDone(outcome) ==
    /\ closeProbes > 0
    /\ closeProbes' = closeProbes - 1
    /\ LET result == keepalive(outcome)
           r == scheduleReconnect(connectScheduled, reconnectTimers,
                                  reconnectTimeout)
       IN IF result = Rejected
          THEN /\ last' = LastProbe("closeProbe", outcome, result, 0, 0)
               /\ UNCHANGED <<sessionTerminated, connectScheduled,
                              reconnectTimers, reconnectTimeout, sinceOpen>>
          ELSE IF terminates(result)
          THEN /\ sessionTerminated' = TRUE
               /\ last' = LastProbe("closeProbe", outcome, result, 0, 1)
               /\ UNCHANGED <<connectScheduled, reconnectTimers,
                              reconnectTimeout, sinceOpen>>
          ELSE /\ connectScheduled' = r.connectScheduled
               /\ reconnectTimers' = r.reconnectTimers
               /\ reconnectTimeout' = r.reconnectTimeout
               /\ sinceOpen' = IF r.delay # 0 THEN sinceOpen + 1 ELSE sinceOpen
               /\ last' = LastProbe("closeProbe", outcome, result, r.delay, 0)
               /\ UNCHANGED sessionTerminated
    /\ UNCHANGED <<images, connected, dummy_images, sockets, keepaliveTimers,
                   keepaliveProbes, teardown, resetFrom>>
    /\ UNCHANGED <<delivered, routerVars, loginVars, imageVars>>

\* The setTimeout callback of scheduleReconnect: connect() again.
ReconnectTimer(i, limit) ==
    /\ i \in 1..Len(reconnectTimers)
    /\ Len(sockets) < limit
    /\ reconnectTimers' = SubSeq(reconnectTimers, 1, i - 1)
                            \o SubSeq(reconnectTimers, i + 1,
                                      Len(reconnectTimers))
    /\ connectScheduled' = FALSE
    /\ sockets' = Append(sockets, "connecting")
    /\ last' = Last("reconnectTimer", FALSE, Null, 0, 0)
    /\ UNCHANGED <<images, connected, dummy_images, reconnectTimeout,
                   keepaliveTimers, closeProbes, keepaliveProbes,
                   sessionTerminated, teardown, sinceOpen, resetFrom>>
    /\ UNCHANGED <<delivered, routerVars, loginVars, imageVars>>

\* The setTimeout callback of scheduleKeepalive: it calls keepalive().
KeepaliveTimer(i) ==
    /\ i \in 1..Len(keepaliveTimers)
    /\ keepaliveTimers' = SubSeq(keepaliveTimers, 1, i - 1)
                            \o SubSeq(keepaliveTimers, i + 1,
                                      Len(keepaliveTimers))
    /\ keepaliveProbes' = keepaliveProbes + 1
    /\ last' = Last("keepaliveTimer", FALSE, Null, 0, 0)
    /\ UNCHANGED <<images, connected, dummy_images, reconnectTimeout,
                   connectScheduled, sockets, reconnectTimers, closeProbes,
                   sessionTerminated, teardown, sinceOpen, resetFrom>>
    /\ UNCHANGED <<delivered, routerVars, loginVars, imageVars>>

\* keepalive().then(...) of the keepalive cycle.
KeepaliveProbeDone(outcome) ==
    /\ keepaliveProbes > 0
    /\ keepaliveProbes' = keepaliveProbes - 1
    /\ LET result == keepalive(outcome)
       IN IF result = Rejected
          THEN /\ last' = LastProbe("keepaliveProbe", outcome, result, 0, 0)
               /\ UNCHANGED <<sessionTerminated, keepaliveTimers>>
          ELSE IF terminates(result)
          THEN /\ sessionTerminated' = TRUE
               /\ last' = LastProbe("keepaliveProbe", outcome, result, 0, 1)
               /\ UNCHANGED keepaliveTimers
          ELSE /\ keepaliveTimers' =
                     scheduleKeepalive(connected, keepaliveTimers)
               /\ last' = LastProbe("keepaliveProbe", outcome, result, 0, 0)
               /\ UNCHANGED sessionTerminated
    /\ UNCHANGED <<images, connected, dummy_images, reconnectTimeout,
                   connectScheduled, sockets, reconnectTimers, closeProbes,
                   teardown, sinceOpen, resetFrom>>
    /\ UNCHANGED <<delivered, routerVars, loginVars, imageVars>>

\* The page is unmounted. The script registers no onDestroy callback, so
\* nothing of the client is touched: its sockets, timers and promises stay.
Destroy ==
    /\ ~teardown.done
    /\ teardown' = Teardown(TRUE, connected, reconnectTimers # <<>>)
    /\ last' = Last("destroy", FALSE, Null, 0, 0)
    /\ UNCHANGED <<images, connected, dummy_images, reconnectTimeout,
                   connectScheduled, sockets, reconnectTimers,
                   keepaliveTimers, closeProbes, keepaliveProbes,
                   sessionTerminated, sinceOpen, resetFrom>>
    /\ UNCHANGED <<delivered, routerVars, loginVars, imageVars>>

(***************************************************************************)
(* Calls of the router's two context functions by Route components.        *)
(***************************************************************************)
RegisterRoute(route) ==
    /\ Len(knownRoutes) < MaxRoutes
    /\ knownRoutes' = registerRoute(knownRoutes, route)
    /\ thrown' = NoError
    /\ UNCHANGED <<defaultRoute, defaultRouteCalls>>
    /\ UNCHANGED <<clientVars, loginVars, imageVars>>

SetDefaultRoute(route) ==
    /\ defaultRouteCalls < MaxDefaultCalls
    /\ defaultRouteCalls' = defaultRouteCalls + 1
    /\ LET r == setDefaultRoute(defaultRoute, route)
       IN /\ defaultRoute' = r.defaultRoute
          /\ thrown' = r.thrown
    /\ UNCHANGED knownRoutes
    /\ UNCHANGED <<clientVars, loginVars, imageVars>>

\* handleLogin(): the click on the button, or Enter in the password field.
HandleLogin ==
    /\ loginsStarted < MaxLogins
    /\ loginsStarted' = loginsStarted + 1
    /\ loginsPending' = loginsPending + 1
    /\ lastLogin' = LastLogin("handleLogin", NoLogin)
    /\ UNCHANGED <<authToken, setAuthTokenCalls>>
    /\ UNCHANGED <<clientVars, routerVars, imageVars>>

\* getToken(...).then(...) of handleLogin.
LoginDone(outcome) ==
    /\ loginsPending > 0
    /\ loginsPending' = loginsPending - 1
    /\ LET token == getToken(outcome)
       IN IF token = NoToken
          THEN UNCHANGED <<authToken, setAuthTokenCalls>>
          ELSE /\ authToken' = token
               /\ setAuthTokenCalls' = setAuthTokenCalls + 1
    /\ lastLogin' = LastLogin("loginDone", outcome)
    /\ UNCHANGED loginsStarted
    /\ UNCHANGED <<clientVars, routerVars, imageVars>>

LoginNext ==
    \/ HandleLogin
    \/ \E outcome \in LoginOutcomes : LoginDone(outcome)

LoginSpec == Init /\ [][LoginNext]_vars

(***************************************************************************)
(* The Image component instances of the page.                              *)
(***************************************************************************)
\* The component is created with its src and onMount observes the element.
Mount(i, src) ==
    /\ instances[i].phase = "unmounted"
    /\ instances' = [instances EXCEPT ![i] =
                        [@ EXCEPT !.phase = "mounted", !.src = src,
                                  !.observing = TRUE]]
    /\ UNCHANGED <<clientVars, routerVars, loginVars>>

\* The IntersectionObserver calls handleIntersect.
Intersect(i, isIntersecting) ==
    /\ instances[i].observing
    /\ instances' = [instances EXCEPT ![i] =
                        handleIntersect(@, isIntersecting)]
    /\ UNCHANGED <<clientVars, routerVars, loginVars>>

\* The fetch of loadImage settles and loadImage runs to its end.
ImageFetchDone(i, outcome) ==
    /\ instances[i].fetch = "pending"
    /\ instances' = [instances EXCEPT ![i] = loadImageSettled(@, i, outcome)]
    /\ UNCHANGED <<clientVars, routerVars, loginVars>>

\* The component is destroyed: its onDestroy callback runs.
ImageDestroy(i) ==
    /\ instances[i].phase = "mounted"
    /\ instances' = [instances EXCEPT ![i] = onDestroy(@)]
    /\ UNCHANGED <<clientVars, routerVars, loginVars>>

ImageNext ==
    \/ \E i \in 1..MaxInstances : \E src \in Sources : Mount(i, src)
    \/ \E i \in 1..MaxInstances :
          \E isIntersecting \in BOOLEAN : Intersect(i, isIntersecting)
    \/ \E i \in 1..MaxInstances :
          \E outcome \in ImageOutcomes : ImageFetchDone(i, outcome)
    \/ \E i \in 1..MaxInstances : ImageDestroy(i)

ImageSpec == Init /\ [][ImageNext]_vars

RouterNext ==
    \/ \E route \in RoutePaths : RegisterRoute(route)
    \/ \E route \in RoutePaths : SetDefaultRoute(route)

RouterSpec == Init /\ [][RouterNext]_vars

(***************************************************************************)
(* The client in its environment.                                          *)
(***************************************************************************)
Next ==
    \/ \E s \in 1..Len(sockets) : OnOpen(s)
    \/ \E s \in 1..Len(sockets) : \E data \in ConnDeltas : OnMessage(s, data)
    \/ \E s \in 1..Len(sockets) :
          \E bad \in ConnBadMessages : OnBadMessage(s, bad)
    \/ \E s \in 1..Len(sockets) : OnClose(s)
    \/ \E s \in 1..Len(sockets) : OnError(s)
    \/ \E outcome \in FetchOutcomes : CloseProbeDone(outcome)
    \/ \E i \in 1..Len(reconnectTimers) : ReconnectTimer(i, MaxSockets)
    \/ \E i \in 1..Len(keepaliveTimers) : KeepaliveTimer(i)
    \/ \E outcome \in FetchOutcomes : KeepaliveProbeDone(outcome)
    \/ Destroy

Spec == Init /\ [][Next]_vars

(***************************************************************************)
(* The item store alone: one connection that opens and then receives any   *)
(* sequence of messages of the schema.                                     *)
(***************************************************************************)
StoreNext ==
    \/ OnOpen(1)
    \/ \E data \in DeltasBySize[Room(dummy_images)] : OnMessage(1, data)

StoreSpec == Init /\ [][StoreNext]_vars

(***************************************************************************)
(* The item store with its last message traced: one connection that opens, *)
(* receives any sequence of messages of the schema and then one more,      *)
(* whose input is kept.                                                    *)
(***************************************************************************)
ApplyNext ==
    \/ OnOpen(1)
    \/ \E data \in DeltasBySize[Room(dummy_images)] :
          delivered = NoDelivery /\ OnMessage(1, data)
    \/ \E data \in DeltasBySize[Room(dummy_images)] :
          OnMessageTraced(1, data)

ApplySpec == Init /\ [][ApplyNext]_vars

(***************************************************************************)
(* The reconnect backoff alone: connections open, close and fail, probes   *)
(* complete and reconnect timers fire, for more attempts than above.       *)
(***************************************************************************)
BackoffNext ==
    \/ \E s \in 1..Len(sockets) : OnOpen(s)
    \/ \E s \in 1..Len(sockets) : OnClose(s)
    \/ \E s \in 1..Len(sockets) : OnError(s)
    \/ \E outcome \in FetchOutcomes : CloseProbeDone(outcome)
    \/ \E i \in 1..Len(reconnectTimers) : ReconnectTimer(i, MaxAttempts)

BackoffSpec == Init /\ [][BackoffNext]_vars

(***************************************************************************)
(* The keepalive cycle and the connection life cycle, without messages and *)
(* without the unmount.                                                    *)
(***************************************************************************)
KeepaliveNext ==
    \/ \E s \in 1..Len(sockets) : OnOpen(s)
    \/ \E s \in 1..Len(sockets) : OnClose(s)
    \/ \E s \in 1..Len(sockets) : OnError(s)
    \/ \E outcome \in FetchOutcomes : CloseProbeDone(outcome)
    \/ \E i \in 1..Len(reconnectTimers) : ReconnectTimer(i, MaxSockets)
    \/ \E i \in 1..Len(keepaliveTimers) : KeepaliveTimer(i)
    \/ \E outcome \in FetchOutcomes : KeepaliveProbeDone(outcome)

KeepaliveSpec == Init /\ [][KeepaliveNext]_vars

(***************************************************************************)
(* Recovery: the connection life cycle where every pending probe resolves  *)
(* and every pending reconnect timer expires.                              *)
(***************************************************************************)
RecoverNext ==
    \/ \E s \in 1..Len(sockets) : OnOpen(s)
    \/ \E s \in 1..Len(sockets) : OnClose(s)
    \/ \E s \in 1..Len(sockets) : OnError(s)
    \/ \E outcome \in FetchOutcomes : CloseProbeDone(outcome)
    \/ \E i \in 1..Len(reconnectTimers) : ReconnectTimer(i, MaxSockets)

RecoverSpec ==
    /\ Init
    /\ [][RecoverNext]_vars
    /\ WF_vars(\E outcome \in FetchOutcomes : CloseProbeDone(outcome))
    /\ WF_vars(\E i \in 1..Len(reconnectTimers) :
                  ReconnectTimer(i, MaxSockets))

(***************************************************************************)
(* Properties.                                                             *)
(***************************************************************************)
IsSortedDescending(list) ==
    \A i \in 1..Len(list) - 1 : list[i].timestamp >= list[i + 1].timestamp

UniqueNames(list) ==
    \A i, j \in 1..Len(list) : i # j => list[i].name # list[j].name

\* C1 (StoreSpec). Sort invariant: whatever messages the listener has
\* handled, the rendered list and the working list are ordered by
\* descending timestamp: every item's timestamp is >= its successor's.
C1_SortInvariant ==
    IsSortedDescending(images) /\ IsSortedDescending(dummy_images)

\* A full list with distinct first and last timestamps has been rendered.
C1_Witness ==
    /\ last.op = "message"
    /\ Len(images) >= 3
    /\ images[1].timestamp > images[Len(images)].timestamp

\* C2 (StoreSpec). Uniqueness invariant as claimed: no two items of the
\* list share a name, an added name that is already present replacing the
\* old entry.
C2_UniqueNames ==
    UniqueNames(images) /\ UniqueNames(dummy_images)

\* C3 (Spec). Single in-flight reconnect as claimed: as long as only the
\* first connection has delivered close/error events (at most its error and
\* its close), at most one new connection attempt has been made.
C3_SingleReconnect ==
    (\A s \in 2..Len(sockets) : Live(s)) => Len(sockets) <= 2

C5_BackoffGrowth ==
    last.delay # 0 =>
        /\ sinceOpen >= 1
        /\ last.delay = Min(originalReconnectTimeout * Pow2(sinceOpen - 1),
                            maxReconnectTimeout)

\* The fifth scheduling in a row uses the capped delay for the second time.
C5_Witness ==
    last.delay = maxReconnectTimeout /\ sinceOpen = 5

\* C6 (BackoffSpec). Backoff reset: once a connection has opened, the backoff is
\* the base delay until the next reconnect is scheduled, and that reconnect
\* is scheduled with the base delay.
C6_BackoffReset ==
    resetFrom # 0 =>
        /\ sinceOpen = 0 => reconnectTimeout = originalReconnectTimeout
        /\ (sinceOpen = 1 /\ last.delay # 0)
              => last.delay = originalReconnectTimeout

\* A connection opened while the backoff had grown, and the reconnect
\* scheduled next used 500 ms.
C6_Witness ==
    /\ resetFrom > originalReconnectTimeout
    /\ sinceOpen = 1
    /\ last.delay = originalReconnectTimeout

\* C7 (Spec). Stale connections are inert, as claimed: a listener of a
\* socket older than ws changes neither the connected flag, the backoff
\* nor the lists, and starts no probe, reconnect or keepalive.
C7_StaleInert ==
    [][last'.stale
          => /\ connected' = connected
             /\ reconnectTimeout' = reconnectTimeout
             /\ dummy_images' = dummy_images
             /\ images' = images
             /\ closeProbes' = closeProbes
             /\ keepaliveProbes' = keepaliveProbes
             /\ keepaliveTimers' = keepaliveTimers
             /\ reconnectTimers' = reconnectTimers]_vars

\* C8 (Spec). No orphaned keepalive, as claimed: while connected is false
\* no keepalive timer is pending and the keepalive cycle issues no probe.
C8_NoOrphanedKeepalive ==
    [][/\ ~connected' => keepaliveTimers' = <<>>
       /\ (~connected /\ ~connected') => keepaliveProbes' <= keepaliveProbes]_vars

\* C9 (Spec). Keepalive stops after teardown, as claimed: once the page has
\* been unmounted while connected, no further probe is issued.
C9_NoProbeAfterTeardown ==
    [][(teardown.done /\ teardown.connected)
          => /\ keepaliveProbes' <= keepaliveProbes
             /\ closeProbes' <= closeProbes]_vars

\* C10 (Spec). Teardown cancels a pending reconnect, as claimed: once the
\* page has been unmounted while a reconnect timer was pending, no timer
\* stays pending, no WebSocket is created and every socket is closed.
C10_TeardownCancelsReconnect ==
    [][(teardown'.done /\ teardown'.reconnectPending)
          => /\ reconnectTimers' = <<>>
             /\ Len(sockets') = Len(sockets)
             /\ \A s \in 1..Len(sockets') : sockets'[s] = "closed"]_vars

\* The probe outcomes the source distinguishes.
ResponseWith(outcome, status) ==
    outcome.kind = "response" /\ outcome.status = status

RejectedWith(outcome, status) ==
    outcome.kind = "reject" /\ outcome.status = status

\* What scheduleReconnect leaves behind when called in the current state.
ReconnectPath ==
    /\ connectScheduled'
    /\ reconnectTimers' = IF connectScheduled THEN reconnectTimers
                          ELSE Append(reconnectTimers, reconnectTimeout)

\* C11 (BackoffSpec). Probe outcome mapping: the probe of
\* closeAndErrorHandler never rejects; a response with status 401 calls
\* removeAuthToken and sets no timer; a response with any other status and
\* a transport error without a response take the reconnect path and never
\* call removeAuthToken.
C11_ProbeOutcomeMapping ==
    [][last'.op = "closeProbe"
          => /\ last'.result # Rejected
             /\ ResponseWith(last'.outcome, Unauthorized)
                   => /\ last'.removed = 1
                      /\ sessionTerminated'
                      /\ reconnectTimers' = reconnectTimers
             /\ (\/ (last'.outcome.kind = "response"
                       /\ last'.outcome.status # Unauthorized)
                 \/ RejectedWith(last'.outcome, Null))
                   => /\ last'.removed = 0
                      /\ sessionTerminated' = sessionTerminated
                      /\ ReconnectPath]_vars

\* A probe failed without a response and the first reconnect was scheduled.
C11_Witness ==
    /\ last.op = "closeProbe"
    /\ RejectedWith(last.outcome, Null)
    /\ last.removed = 0
    /\ last.delay = originalReconnectTimeout
    /\ reconnectTimers = <<originalReconnectTimeout>>

\* C12 (BackoffSpec). Rejected probes, as claimed: a probe whose request
\* promise is rejected with an object of status 401 terminates the session,
\* and one rejected without a status takes the reconnect path.
C12_RejectedProbeMapping ==
    [][(last'.op = "closeProbe" /\ last'.outcome.kind = "reject")
          => IF last'.outcome.status = Unauthorized
             THEN last'.result = Unauthorized /\ last'.removed = 1
             ELSE last'.result = Null /\ last'.removed = 0]_vars

\* C13 (BackoffSpec). One probe per disconnect episode, as claimed: the
\* step in which a connection goes down, by a close alone or by an error
\* followed by its close, issues exactly one probe.
C13_OneProbePerEpisode ==
    [][(\E s \in 1..Len(sockets) : Live(s) /\ sockets'[s] = "closed")
          => closeProbes' = closeProbes + 1]_vars

\* C14 (Spec). Session invalid is not retried, as claimed: once
\* removeAuthToken has been called, no WebSocket is created any more.
C14_NoConnectAfterTermination ==
    [][sessionTerminated => Len(sockets') = Len(sockets)]_vars

\* C15 (KeepaliveSpec). Keepalive unauthorized terminates immediately: a
\* probe of the keepalive cycle that returns 401 while connected calls
\* removeAuthToken, sets no keepalive timer and starts no reconnect (no
\* timer, no flag, no probe); one that returns anything else while connected
\* sets exactly one keepalive timer, of 60000 ms.
C15_KeepaliveOutcome ==
    [][(last'.op = "keepaliveProbe" /\ connected)
          => IF last'.result = Unauthorized
             THEN /\ last'.removed = 1
                  /\ sessionTerminated'
                  /\ keepaliveTimers' = keepaliveTimers
                  /\ reconnectTimers' = reconnectTimers
                  /\ connectScheduled' = connectScheduled
                  /\ closeProbes' = closeProbes
                  /\ sockets' = sockets
             ELSE /\ last'.removed = 0
                  /\ sessionTerminated' = sessionTerminated
                  /\ keepaliveTimers' = Append(keepaliveTimers, 60000)
                  /\ reconnectTimers' = reconnectTimers]_vars

\* On an open connection a keepalive probe returned 200 and the cycle's
\* next timer is the only one pending.
C15_Witness ==
    /\ last.op = "keepaliveProbe"
    /\ last.result = 200
    /\ connected
    /\ keepaliveTimers = <<keepaliveInterval>>
    /\ ~sessionTerminated

\* C16 (RecoverSpec). Transient failures recover: whenever the probe of a
\* close or error event has resolved to anything but 401, a new WebSocket
\* is eventually created (as long as the bound on sockets allows one).
C16_TransientFailuresRecover ==
    \A n \in 1..MaxSockets - 1 :
        (last.op = "closeProbe" /\ last.result # Unauthorized
            /\ Len(sockets) = n)
        ~> (Len(sockets) > n)

\* The first connection closed, its probe did not return 401 and the
\* reconnect timer has created the second socket.
C16_Witness ==
    /\ last.op = "reconnectTimer"
    /\ Len(sockets) = 2
    /\ sockets[1] = "closed"
    /\ ~sessionTerminated
    /\ closeProbes = 0

\* C17 (Spec). Malformed message is dropped, as claimed: a message on which
\* the listener throws changes neither the working list, the rendered list
\* nor the connection state.
C17_MalformedDropped ==
    [][last'.op = "badMessage"
          => /\ dummy_images' = dummy_images
             /\ images' = images
             /\ connected' = connected
             /\ sockets' = sockets]_vars

\* C18 (StoreSpec). Idempotent removal: a message that only removes, and
\* only names the working list does not hold, leaves the working list as it
\* was, contents and order, and renders it.
C18_IdempotentRemoval ==
    [][(last'.op = "message" /\ last'.kind = "absentRemoval")
          => /\ dummy_images' = dummy_images
             /\ images' = dummy_images]_vars

\* A list of two items has just been handed a removal of a name it lacks.
C18_Witness ==
    /\ last.op = "message"
    /\ last.kind = "absentRemoval"
    /\ Len(dummy_images) = 2
    /\ images = dummy_images

\* C19 (StoreSpec). One observable update per delta: the listener assigns
\* images exactly once per message, and the value it assigns is the working
\* list after all removals and additions of that message.
C19_OneUpdatePerDelta ==
    [][last'.op = "message"
          => /\ last'.published = 1
             /\ images' = dummy_images']_vars

\* A message has added two items to the list with one assignment.
C19_Witness ==
    /\ last.op = "message"
    /\ last.kind = "delta"
    /\ last.published = 1
    /\ Len(images) = 2
    /\ images[1].name # images[2].name

\* C20 (RouterSpec). The default route is set at most once: the first call
\* of setDefaultRoute sets the route; every later call throws "Default route
\* already set" and changes neither the default route nor the known routes.
C20_DefaultRouteSetOnce ==
    [][defaultRouteCalls' = defaultRouteCalls + 1
          => IF defaultRouteCalls = 0
             THEN thrown' = NoError /\ defaultRoute' \in RoutePaths
             ELSE /\ thrown' = "Default route already set"
                  /\ defaultRoute' = defaultRoute
                  /\ knownRoutes' = knownRoutes]_vars

\* With two routes registered and "/images" the default, a second call has
\* just thrown.
C20_Witness ==
    /\ defaultRouteCalls = 2
    /\ thrown = AlreadySet
    /\ defaultRoute = "/images"
    /\ Len(knownRoutes) = 2

\* C21 (LoginSpec). Login sets the auth token only on success: the
\* continuation of a login request calls setAuthToken, once and with the
\* response body, when the request resolved with status 200; for any other
\* status and for a failed request it does not call setAuthToken and the
\* token stays as it was.
C21_TokenOnlyOnSuccess ==
    [][lastLogin'.op = "loginDone"
          => IF ResponseWith(lastLogin'.outcome, 200)
             THEN /\ setAuthTokenCalls' = setAuthTokenCalls + 1
                  /\ authToken' = lastLogin'.outcome.body
             ELSE /\ setAuthTokenCalls' = setAuthTokenCalls
                  /\ authToken' = authToken]_vars

\* After a successful login, a login answered with 401 and a body has
\* left the token alone.
C21_Witness ==
    /\ lastLogin.op = "loginDone"
    /\ ResponseWith(lastLogin.outcome, Unauthorized)
    /\ lastLogin.outcome.body = "token-2"
    /\ authToken = "token-1"
    /\ setAuthTokenCalls = 1

\* The reference operator of delta application: the removed names deleted,
\* then each added item, in list order, put after all the items with a
\* strictly greater timestamp.
RECURSIVE RefRemove(_, _)
RefRemove(list, removed) ==
    IF list = <<>> THEN <<>>
    ELSE (IF Head(list).name \in removed THEN <<>> ELSE <<Head(list)>>)
            \o RefRemove(Tail(list), removed)

RefInsert(list, item) ==
    LET k == Cardinality({i \in 1..Len(list) :
                            list[i].timestamp > item.timestamp})
    IN [i \in 1..Len(list) + 1 |->
            IF i <= k THEN list[i]
            ELSE IF i = k + 1 THEN item ELSE list[i - 1]]

RECURSIVE RefInsertAll(_, _)
RefInsertAll(list, added) ==
    IF added = <<>> THEN list
    ELSE RefInsertAll(RefInsert(list, [name |-> added[1][1],
                                       timestamp |-> added[1][2]]),
                      Tail(added))

RefApply(list, data) ==
    RefInsertAll(IF data.hasRemoved THEN RefRemove(list, data.removed)
                 ELSE list,
                 IF data.hasAdded THEN data.added ELSE <<>>)

\* The names data adds, and whether they are pairwise distinct and absent
\* from list once the removals of data are done.
AddedOf(data) == IF data.hasAdded THEN data.added ELSE <<>>

RemovedOf(data) == IF data.hasRemoved THEN data.removed ELSE {}

FreshAdditions(list, data) ==
    /\ \A i, j \in 1..Len(AddedOf(data)) :
          i # j => AddedOf(data)[i][1] # AddedOf(data)[j][1]
    /\ \A i \in 1..Len(AddedOf(data)) : \A k \in 1..Len(list) :
          list[k].name = AddedOf(data)[i][1]
              => list[k].name \in RemovedOf(data)

\* C22 (ApplySpec). Delta application equals the reference operator: for a
\* sorted working list and a message whose added names are pairwise distinct
\* and absent after its removals, the listener leaves the list RefApply
\* gives, and renders it; a name both removed and added is then present
\* exactly once, with the added timestamp.
C22_DeltaEqualsReference ==
    (delivered.traced /\ last.op = "message"
        /\ IsSortedDescending(delivered.before)
        /\ FreshAdditions(delivered.before, delivered.data))
    => /\ dummy_images = RefApply(delivered.before, delivered.data)
       /\ images = dummy_images
       /\ \A i \in 1..Len(AddedOf(delivered.data)) :
             AddedOf(delivered.data)[i][1] \in RemovedOf(delivered.data)
                => \E k \in 1..Len(dummy_images) :
                      /\ dummy_images[k] =
                            [name |-> AddedOf(delivered.data)[i][1],
                             timestamp |-> AddedOf(delivered.data)[i][2]]
                      /\ \A m \in 1..Len(dummy_images) :
                            dummy_images[m].name = dummy_images[k].name
                                => m = k

\* A list holding a.jpg with timestamp 1 was sent a message that removes
\* a.jpg and adds it with timestamp 3 behind b.jpg with timestamp 3: the new
\* a.jpg stands before b.jpg.
C22_Witness ==
    /\ delivered.traced
    /\ last.op = "message"
    /\ delivered.before = <<[name |-> "a.jpg", timestamp |-> 1]>>
    /\ delivered.data.hasRemoved
    /\ delivered.data.removed = {"a.jpg"}
    /\ delivered.data.added = <<<<"b.jpg", 3>>, <<"a.jpg", 3>>>>
    /\ dummy_images = <<[name |-> "a.jpg", timestamp |-> 3],
                        [name |-> "b.jpg", timestamp |-> 3]>>

\* C23 (BackoffSpec). At most one logical connection, as claimed: at most
\* one socket is connecting or open, and connect() is only called when every
\* socket created before has closed.
C23_OneLogicalConnection ==
    [][/\ Cardinality({s \in 1..Len(sockets') : Live(s)'}) <= 1
       /\ Len(sockets') > Len(sockets)
             => \A s \in 1..Len(sockets) : sockets[s] = "closed"]_vars

\* At most one reconnect timer is pending, and connectScheduled says
\* whether one is.
OneReconnectTimer ==
    /\ Len(reconnectTimers) <= 1
    /\ connectScheduled <=> reconnectTimers # <<>>

\* C24 (BackoffSpec). At most one reconnect timer is pending at any time and
\* connectScheduled is true exactly when one is; a probe continuation that
\* calls scheduleReconnect while the flag is true sets no timer and leaves
\* the backoff delay as it is.
C24_SingleReconnectTimer ==
    [][/\ OneReconnectTimer
       /\ OneReconnectTimer'
       /\ (last'.op = "closeProbe" /\ ~terminates(last'.result)
             /\ connectScheduled)
             => /\ reconnectTimers' = reconnectTimers
                /\ reconnectTimeout' = reconnectTimeout
                /\ connectScheduled'
                /\ last'.delay = 0]_vars

\* The second probe of a failed connection found the flag set: the one
\* timer stays and the backoff is still the doubled base delay.
C24_Witness ==
    /\ last.op = "closeProbe"
    /\ last.result = Null
    /\ last.delay = 0
    /\ connectScheduled
    /\ reconnectTimers = <<originalReconnectTimeout>>
    /\ reconnectTimeout = 2 * originalReconnectTimeout
    /\ closeProbes = 0

\* C25 (KeepaliveSpec). At most one keepalive cycle, as claimed: at most one
\* keepalive timer or keepalive-cycle probe is outstanding.
C25_OneKeepaliveCycle ==
    Len(keepaliveTimers) + keepaliveProbes <= 1

\* C26 (Spec). The rendered list tracks the working list, as claimed:
\* between handlers images equals dummy_images.
C26_RenderedTracksWorking ==
    images = dummy_images

\* C27 (ImageSpec). Object URLs are always released, as claimed: the object
\* URL an instance has created is revoked once the instance is destroyed,
\* and an instance issues its fetch only after an intersecting entry and at
\* most once.
C27_ObjectURLsReleased ==
    \A i \in 1..MaxInstances :
        /\ (instances[i].phase = "destroyed" /\ instances[i].created)
              => instances[i].revoked
        /\ instances[i].fetches <= 1
        /\ instances[i].fetches > 0 => instances[i].intersected

====
